---- MODULE Spec2Model ----
(***************************************************************************)
(* Booking and review serializers of the listings application              *)
(* (listings/serializers.py), modelled as a state machine over the three   *)
(* tables Listing, Booking and Review.  Dates are day numbers, prices are  *)
(* whole amounts, primary keys of bookings and reviews are positions in    *)
(* the table (0 stands for None).                                          *)
(***************************************************************************)
EXTENDS Integers, Sequences, FiniteSets

VARIABLES listings, bookings, reviews, today, last, req

vars == <<listings, bookings, reviews, today, last, req>>

(***************************************************************************)
(* Bounds of the model.                                                    *)
(***************************************************************************)
MaxDate == 2
MaxToday == 2
MaxBookings == 2
MaxReviews == 2
MaxListings == 4
MaxDuration == 2

Dates == 0..MaxDate

Users == {"u1", "u2"}

\* Primary keys of the rows of the Listing table.
ListingIds == {"l1", "l2", "l3"}

\* listing_id values a request may carry: "lx" is the key of no listing.
RequestListingIds == ListingIds \cup {"lx"}

Statuses == {"pending", "confirmed", "cancelled", "completed"}

\* The status field is writable and optional: a request carries a status or omits it.
RequestStatuses == Statuses \cup {"omitted"}

\* Default of Booking.status when the request carries none (listings/models.py).
DefaultStatus == "pending"

GuestCounts == {1, 2}

Workers == {"w1", "w2"}

\* The rows of the Listing table: host, price_per_night, max_guests, available.
ListingRows ==
    [ l1 |-> [host |-> "u1", price_per_night |-> 2, max_guests |-> 1, available |-> TRUE],
      l2 |-> [host |-> "u2", price_per_night |-> 3, max_guests |-> 1, available |-> TRUE],
      l3 |-> [host |-> "u2", price_per_night |-> 5, max_guests |-> 1, available |-> FALSE] ]

\* The listings hosts edit and guests book while listings are edited: a stored one and
\* the first one created.
EditedListingIds == {"l1", "l4"}

\* Keys the Listing table hands out, in the order new rows get them.
ListingKeys == <<"l1", "l2", "l3", "l4", "l5", "l6">>

\* Values a listing request may carry for price_per_night and for max_guests.
ListingValues == {0, 1, 2}

\* The data of a listing request (the writable fields price_per_night, max_guests and
\* available of ListingSerializer and ListingCreateSerializer; the text fields left out).
ListingRequests ==
    [price_per_night : ListingValues, max_guests : ListingValues, available : BOOLEAN]

\* The data of a booking request after field validation (BookingSerializer's writable fields).
BookingRequests ==
    [listing_id : RequestListingIds, check_in_date : Dates, check_out_date : Dates,
     number_of_guests : GuestCounts, status : RequestStatuses]

\* Ratings a review request may carry, around the accepted range.
Ratings == {0, 1, 5, 6}

\* booking_id values a review request may carry: 0 when the field is absent, a key beyond
\* MaxBookings never resolves.
RequestBookingIds == 0..(MaxBookings + 1)

\* The data of a review request (ReviewSerializer's writable fields, comment left out).
ReviewRequests ==
    [listing_id : RequestListingIds, booking_id : RequestBookingIds, rating : Ratings]

\* Booking requests for a stay of one night from day 0 by one guest.
OneNightRequests ==
    { d \in BookingRequests :
        /\ d.check_in_date = 0
        /\ d.check_out_date = d.check_in_date + 1
        /\ d.number_of_guests = 1 }

\* Review requests that carry no booking_id.
PlainReviewRequests == { d \in ReviewRequests : d.booking_id = 0 }

\* Review requests of clients that run concurrently: an existing listing, a rating in
\* range, no booking_id.
ConcurrentReviewRequests ==
    { d \in PlainReviewRequests :
        d.listing_id \in {"l1", "l2"} /\ d.rating \in {1, 5} }

\* Booking requests of clients that run concurrently: an existing listing, a date range
\* in order, one guest, no status.
ConcurrentRequests ==
    { d \in BookingRequests :
        /\ d.listing_id \in {"l1", "l2"}
        /\ d.check_in_date < d.check_out_date
        /\ d.number_of_guests = 1
        /\ d.status = "omitted" }

NoData ==
    [listing_id |-> "lx", check_in_date |-> 0, check_out_date |-> 0,
     number_of_guests |-> 1, status |-> "omitted"]

\* A worker that handles no request.
NoRequest == [pc |-> "idle", user |-> "u1", data |-> NoData, result |-> "none"]

\* The response to a request: the operation, its outcome ("ok", the error raised, or the
\* status field read), the requesting user and the listing_id the request carried (""
\* when there is none), the key of the booking or review concerned (0 when none) and
\* the booking_id the request carried (0 when none).
Response(op, result, user, listing, id) ==
    [op |-> op, result |-> result, user |-> user, listing |-> listing, id |-> id,
     booking_id |-> 0]

\* The response to a review request, which may carry a booking_id.
ReviewResponse(result, user, data, id) ==
    [Response("create_review", result, user, data.listing_id, id)
        EXCEPT !.booking_id = data.booking_id]

NoResponse == Response("none", "none", "", "", 0)

\* No request is being answered: the next request can be taken.
Quiet == last = NoResponse

(***************************************************************************)
(* ListingSerializer, ListingCreateSerializer                              *)
(***************************************************************************)

\* The fields ListingSerializer's field validators refuse: validate_price_per_night and
\* validate_max_guests raise for value <= 0.
ListingFieldErrors(data) ==
    {f \in {"price_per_night", "max_guests"} : data[f] <= 0}

\* ListingCreateSerializer declares no validate_<field> method: no field is refused.
ListingCreateFieldErrors(data) == {}

\* The row ListingCreateSerializer.create inserts: host = request.user.
ListingCreate(data, user) ==
    [host |-> user, price_per_night |-> data.price_per_night,
     max_guests |-> data.max_guests, available |-> data.available]

\* The row an update through ListingSerializer leaves: host is read-only.
ListingUpdate(row, data) ==
    [row EXCEPT !.price_per_night = data.price_per_night,
                !.max_guests = data.max_guests,
                !.available = data.available]

\* The key of the next row of the Listing table.
NextListingId == ListingKeys[Cardinality(DOMAIN listings) + 1]

(***************************************************************************)
(* BookingSerializer.validate                                              *)
(***************************************************************************)

\* Listing.objects.get(listing_id=...) finds a row.
ListingExists(id) == id \in DOMAIN listings

\* OverlappingBookings with the status filter narrowed to confirmed bookings.
OverlappingBookingsConfirmedOnly(bks, listing, check_in, check_out) ==
    { i \in DOMAIN bks :
        /\ bks[i].listing = listing
        /\ bks[i].status \in {"confirmed"}
        /\ bks[i].check_in_date < check_out
        /\ bks[i].check_out_date > check_in }

\* OverlappingBookings with closed intervals: touching endpoints count as overlap.
OverlappingBookingsClosed(bks, listing, check_in, check_out) ==
    { i \in DOMAIN bks :
        /\ bks[i].listing = listing
        /\ bks[i].status \in {"confirmed", "pending"}
        /\ bks[i].check_in_date <= check_out
        /\ bks[i].check_out_date >= check_in }

\* The queryset overlapping_bookings: keys of the bookings of the listing with status
\* confirmed or pending, check_in_date < check_out and check_out_date > check_in.
OverlappingBookings(bks, listing, check_in, check_out) ==
    { i \in DOMAIN bks :
        /\ bks[i].listing = listing
        /\ bks[i].status \in {"confirmed", "pending"}
        /\ bks[i].check_in_date < check_out
        /\ bks[i].check_out_date > check_in }

\* BookingValidate with the availability check moved before the capacity check.
BookingValidateAvailabilityFirst(bks, data) ==
    IF data.check_out_date <= data.check_in_date THEN "InvalidDateRange"
    ELSE IF data.check_in_date < today THEN "PastDate"
    ELSE IF ~ListingExists(data.listing_id) THEN "NotFound"
    ELSE IF ~listings[data.listing_id].available THEN "ListingUnavailable"
    ELSE IF data.number_of_guests > listings[data.listing_id].max_guests
        THEN "CapacityExceeded"
    ELSE IF OverlappingBookings(bks, data.listing_id, data.check_in_date,
                                data.check_out_date) # {}
        THEN "DateConflict"
    ELSE "ok"

\* BookingValidate with a stay of no nights let through (check_out < check_in raises).
BookingValidateSameDayAllowed(bks, data) ==
    IF data.check_out_date < data.check_in_date THEN "InvalidDateRange"
    ELSE IF data.check_in_date < today THEN "PastDate"
    ELSE IF ~ListingExists(data.listing_id) THEN "NotFound"
    ELSE IF data.number_of_guests > listings[data.listing_id].max_guests
        THEN "CapacityExceeded"
    ELSE IF ~listings[data.listing_id].available THEN "ListingUnavailable"
    ELSE IF OverlappingBookings(bks, data.listing_id, data.check_in_date,
                                data.check_out_date) # {}
        THEN "DateConflict"
    ELSE "ok"

\* BookingValidate with a check-in of today refused (check_in <= today raises).
BookingValidateTodayRefused(bks, data) ==
    IF data.check_out_date <= data.check_in_date THEN "InvalidDateRange"
    ELSE IF data.check_in_date <= today THEN "PastDate"
    ELSE IF ~ListingExists(data.listing_id) THEN "NotFound"
    ELSE IF data.number_of_guests > listings[data.listing_id].max_guests
        THEN "CapacityExceeded"
    ELSE IF ~listings[data.listing_id].available THEN "ListingUnavailable"
    ELSE IF OverlappingBookings(bks, data.listing_id, data.check_in_date,
                                data.check_out_date) # {}
        THEN "DateConflict"
    ELSE "ok"

\* validate(data): the error of the first check that raises, or "ok".
BookingValidate(bks, data) ==
    IF data.check_out_date <= data.check_in_date THEN "InvalidDateRange"
    ELSE IF data.check_in_date < today THEN "PastDate"
    ELSE IF ~ListingExists(data.listing_id) THEN "NotFound"
    ELSE IF data.number_of_guests > listings[data.listing_id].max_guests
        THEN "CapacityExceeded"
    ELSE IF ~listings[data.listing_id].available THEN "ListingUnavailable"
    ELSE IF OverlappingBookings(bks, data.listing_id, data.check_in_date,
                                data.check_out_date) # {}
        THEN "DateConflict"
    ELSE "ok"

(***************************************************************************)
(* BookingSerializer.create                                                *)
(***************************************************************************)

\* TotalPrice counting both the day of arrival and the day of departure.
TotalPriceInclusive(listing, check_in, check_out) ==
    listings[listing].price_per_night * (check_out - check_in + 1)

\* total_price = listing.price_per_night * (check_out_date - check_in_date).days
TotalPrice(listing, check_in, check_out) ==
    listings[listing].price_per_night * (check_out - check_in)

\* The status the new row gets: the request's, or the model's default.
CreatedStatus(data) ==
    IF data.status = "omitted" THEN DefaultStatus ELSE data.status

\* The row create(validated_data) inserts for the request of `user`.
BookingCreate(data, user) ==
    [listing |-> data.listing_id,
     guest |-> user,
     check_in_date |-> data.check_in_date,
     check_out_date |-> data.check_out_date,
     number_of_guests |-> data.number_of_guests,
     total_price |-> TotalPrice(data.listing_id, data.check_in_date, data.check_out_date),
     status |-> CreatedStatus(data)]

\* The data of a request that changes the status of a stored booking and resubmits its
\* other writable fields as they are.
StatusChangeData(row, status) ==
    [listing_id |-> row.listing,
     check_in_date |-> row.check_in_date,
     check_out_date |-> row.check_out_date,
     number_of_guests |-> row.number_of_guests,
     status |-> status]

\* The row a full update through BookingSerializer leaves: the validated fields are
\* assigned, the read-only fields guest and total_price keep their values.
BookingUpdate(row, data) ==
    [row EXCEPT !.listing = data.listing_id,
                !.check_in_date = data.check_in_date,
                !.check_out_date = data.check_out_date,
                !.number_of_guests = data.number_of_guests,
                !.status = IF data.status = "omitted" THEN @ ELSE data.status]

\* BookingRepresentationStatus with completion inferred from the date at read time.
BookingRepresentationStatusInferred(row) ==
    IF row.check_out_date < today /\ row.status \in {"pending", "confirmed"}
        THEN "completed"
        ELSE row.status

\* The status field of a serialized booking: the model field as stored.
BookingRepresentationStatus(row) == row.status

(***************************************************************************)
(* ReviewSerializer                                                        *)
(***************************************************************************)
MinRating == 1
MaxRating == 5

\* RatingValid with the lower end of the range at 0.
RatingValidFromZero(value) == 0 <= value /\ value <= MaxRating

\* validate_rating(value): not 1 <= value <= 5 raises.
RatingValid(value) == MinRating <= value /\ value <= MaxRating

\* CompletedBookings without the guest filter.
CompletedBookingsAnyGuest(bks, listing, guest) ==
    { i \in DOMAIN bks :
        /\ bks[i].listing = listing
        /\ bks[i].status = "completed" }

\* The queryset completed_bookings: bookings of the listing by the guest with stored
\* status completed.
CompletedBookings(bks, listing, guest) ==
    { i \in DOMAIN bks :
        /\ bks[i].listing = listing
        /\ bks[i].guest = guest
        /\ bks[i].status = "completed" }

\* The queryset behind existing_review: reviews of the listing by the guest.
ExistingReviews(rvs, listing, guest) ==
    { i \in DOMAIN rvs : rvs[i].listing = listing /\ rvs[i].guest = guest }

\* ReviewValidate with the duplicate check applied to updates only (self.instance set).
ReviewValidateNoDuplicateCheck(bks, rvs, data, user) ==
    IF ~RatingValid(data.rating) THEN "InvalidRating"
    ELSE IF ~ListingExists(data.listing_id) THEN "NotFound"
    ELSE IF CompletedBookings(bks, data.listing_id, user) = {} THEN "NotEligible"
    ELSE "ok"

\* Field validation (validate_rating), then validate(data) with no instance: the error
\* of the first check that raises, or "ok".
ReviewValidate(bks, rvs, data, user) ==
    IF ~RatingValid(data.rating) THEN "InvalidRating"
    ELSE IF ~ListingExists(data.listing_id) THEN "NotFound"
    ELSE IF CompletedBookings(bks, data.listing_id, user) = {} THEN "NotEligible"
    ELSE IF ExistingReviews(rvs, data.listing_id, user) # {} THEN "DuplicateReview"
    ELSE "ok"

\* AttachedBooking with the booking_id stored as given, resolved or not.
AttachedBookingUnchecked(bks, booking_id) == booking_id

\* The booking create() attaches: the one booking_id resolves to, None (0) when the
\* field is absent or Booking.DoesNotExist is raised.
AttachedBooking(bks, booking_id) ==
    IF booking_id # 0 /\ booking_id \in DOMAIN bks THEN booking_id ELSE 0

\* The row create(validated_data) inserts for the request of `user`.
ReviewCreate(bks, data, user) ==
    [listing |-> data.listing_id,
     guest |-> user,
     booking |-> AttachedBooking(bks, data.booking_id),
     rating |-> data.rating]

Init ==
    /\ listings = ListingRows
    /\ bookings = <<>>
    /\ reviews = <<>>
    /\ today = 0
    /\ last = NoResponse
    /\ req = [w \in Workers |-> NoRequest]

\* A create request handled alone: is_valid() (validate), then save() (create).
\* CreateBooking with the row saved before the outcome of validation is looked at.
CreateBookingSavesUnvalidated(data, user) ==
    LET r == BookingValidate(bookings, data) IN
    /\ Quiet
    /\ Len(bookings) < MaxBookings
    /\ ListingExists(data.listing_id)
    /\ bookings' = Append(bookings, BookingCreate(data, user))
    /\ last' = Response("create_booking", r, user, data.listing_id,
                      IF r = "ok" THEN Len(bookings) + 1 ELSE 0)
    /\ UNCHANGED <<listings, reviews, today, req>>

CreateBooking(data, user) ==
    LET r == BookingValidate(bookings, data) IN
    /\ Quiet
    /\ IF r = "ok"
         THEN /\ Len(bookings) < MaxBookings
              /\ bookings' = Append(bookings, BookingCreate(data, user))
              /\ last' = Response("create_booking", r, user, data.listing_id,
                               Len(bookings) + 1)
         ELSE /\ UNCHANGED bookings
              /\ last' = Response("create_booking", r, user, data.listing_id, 0)
    /\ UNCHANGED <<listings, reviews, today, req>>

\* An explicit status change of booking `id`: an update through BookingSerializer,
\* is_valid() (validate, which does not exclude the booking itself), then save() (update).
UpdateBookingStatus(id, status) ==
    LET data == StatusChangeData(bookings[id], status)
        r == BookingValidate(bookings, data) IN
    /\ Quiet
    /\ id \in DOMAIN bookings
    /\ IF r = "ok"
         THEN bookings' = [bookings EXCEPT ![id] = BookingUpdate(@, data)]
         ELSE UNCHANGED bookings
    /\ last' = Response("update_booking", r, "", data.listing_id, id)
    /\ UNCHANGED <<listings, reviews, today, req>>

\* A review request handled alone: is_valid() (validate_rating, validate), then save()
\* (create).
CreateReview(data, user) ==
    LET r == ReviewValidate(bookings, reviews, data, user) IN
    /\ Quiet
    /\ IF r = "ok"
         THEN /\ Len(reviews) < MaxReviews
              /\ reviews' = Append(reviews, ReviewCreate(bookings, data, user))
              /\ last' = ReviewResponse(r, user, data, Len(reviews) + 1)
         ELSE /\ UNCHANGED reviews
              /\ last' = ReviewResponse(r, user, data, 0)
    /\ UNCHANGED <<listings, bookings, today, req>>

\* Booking `id` is read through BookingSerializer; the response carries its status field.
ReadBooking(id) ==
    /\ Quiet
    /\ id \in DOMAIN bookings
    /\ last' = Response("read_booking", BookingRepresentationStatus(bookings[id]), "",
                        bookings[id].listing, id)
    /\ UNCHANGED <<listings, bookings, reviews, today, req>>

\* The response is returned to the client.
Respond ==
    /\ ~Quiet
    /\ last' = NoResponse
    /\ UNCHANGED <<listings, bookings, reviews, today, req>>

\* The date source moves to the next day.
Tick ==
    /\ Quiet
    /\ today < MaxToday
    /\ today' = today + 1
    /\ UNCHANGED <<listings, bookings, reviews, last, req>>

(***************************************************************************)
(* Concurrent create requests: each worker runs is_valid() and save() as   *)
(* two steps, with no transaction or lock around them, so the steps of two *)
(* requests interleave.                                                    *)
(***************************************************************************)

\* Worker w takes a request and runs serializer.is_valid(): validate() against the
\* bookings stored at that moment.
ValidateStep(w, data, user) ==
    LET r == BookingValidate(bookings, data) IN
    /\ req[w].pc # "validated"
    /\ req' = [req EXCEPT ![w] =
                 [pc |-> IF r = "ok" THEN "validated" ELSE "done",
                  user |-> user, data |-> data, result |-> r]]
    /\ UNCHANGED <<listings, bookings, reviews, today, last>>

\* Worker w runs serializer.save(): create() inserts the row, whatever was stored since
\* its validate().
CreateStep(w) ==
    /\ req[w].pc = "validated"
    /\ Len(bookings) < MaxBookings
    /\ bookings' = Append(bookings, BookingCreate(req[w].data, req[w].user))
    /\ req' = [req EXCEPT ![w].pc = "done"]
    /\ UNCHANGED <<listings, reviews, today, last>>

Next ==
    \/ \E data \in BookingRequests, user \in Users : CreateBooking(data, user)
    \/ \E id \in DOMAIN bookings, status \in Statuses : UpdateBookingStatus(id, status)
    \/ \E id \in DOMAIN bookings : ReadBooking(id)
    \/ Respond
    \/ Tick

\* A listing is created through ListingCreateSerializer by its host.
CreateListing(data, user) ==
    LET errors == ListingCreateFieldErrors(data) IN
    /\ Quiet
    /\ Cardinality(DOMAIN listings) < MaxListings
    /\ IF errors = {}
         THEN /\ listings' = [id \in DOMAIN listings \cup {NextListingId} |->
                                IF id \in DOMAIN listings THEN listings[id]
                                ELSE ListingCreate(data, user)]
              /\ last' = Response("create_listing", "ok", user, NextListingId, 0)
         ELSE /\ UNCHANGED listings
              /\ last' = Response("create_listing", "InvalidListing", user, "", 0)
    /\ UNCHANGED <<bookings, reviews, today, req>>

\* A stored listing is edited through ListingSerializer.
UpdateListing(id, data) ==
    LET errors == ListingFieldErrors(data) IN
    /\ Quiet
    /\ id \in DOMAIN listings
    /\ IF errors = {}
         THEN listings' = [listings EXCEPT ![id] = ListingUpdate(@, data)]
         ELSE UNCHANGED listings
    /\ last' = Response("update_listing",
                      IF errors = {} THEN "ok" ELSE "InvalidListing",
                      listings[id].host, id, 0)
    /\ UNCHANGED <<bookings, reviews, today, req>>

\* The data of a request for a stay of the night of day 0.
StayRequest(listing, guests) ==
    [listing_id |-> listing, check_in_date |-> 0, check_out_date |-> 1,
     number_of_guests |-> guests, status |-> "omitted"]

ListingNext ==
    \/ \E data \in ListingRequests, user \in Users : CreateListing(data, user)
    \/ \E id \in EditedListingIds, data \in ListingRequests : UpdateListing(id, data)
    \/ \E id \in EditedListingIds \cup {"lx"}, n \in GuestCounts, user \in Users :
          CreateBooking(StayRequest(id, n), user)
    \/ Respond

\* Hosts create and edit listings while guests book them, one request at a time.
ListingSpec == Init /\ [][ListingNext]_vars

(***************************************************************************)
(* The seed command (management/commands/seed.py)                          *)
(***************************************************************************)

Min(a, b) == IF a <= b THEN a ELSE b

\* random.randint(1, 14), up to the bound of the model.
SeedDurations == 1..MaxDuration

\* The kinds of comment random.choice(comments) draws, by the branch of the rating they
\* select.
SeedComments == {"great", "decent", "other"}

\* The ratings random.randint draws for a comment of the kind.
SeedRatings(comment) ==
    IF comment = "great" THEN 4..5
    ELSE IF comment = "decent" THEN 3..4
    ELSE 3..5

\* The statuses create_bookings chooses from for the dates, today being the day it runs.
SeedStatuses(start_date, end_date) ==
    IF end_date < today THEN {"completed", "cancelled"}
    ELSE IF start_date <= today /\ today <= end_date THEN {"confirmed"}
    ELSE Statuses

\* The row one round of the loop of create_bookings inserts.
SeedBooking(listing, guest, start_date, duration, num_guests, status) ==
    [listing |-> listing,
     guest |-> guest,
     check_in_date |-> start_date,
     check_out_date |-> start_date + duration,
     number_of_guests |-> num_guests,
     total_price |-> listings[listing].price_per_night * duration,
     status |-> status]

\* One round of the loop of create_bookings: Booking.objects.create with drawn values.
\* A round whose create raises is skipped and leaves every table as it was.
SeedCreateBooking(listing, guest, back, duration, num_guests, status) ==
    /\ Quiet
    /\ reviews = <<>>
    /\ Len(bookings) < MaxBookings
    /\ guest # listings[listing].host
    /\ back <= today
    /\ num_guests <= Min(listings[listing].max_guests, 6)
    /\ status \in SeedStatuses(today - back, today - back + duration)
    /\ bookings' = Append(bookings, SeedBooking(listing, guest, today - back, duration,
                                                num_guests, status))
    /\ UNCHANGED <<listings, reviews, today, last, req>>

\* hasattr(booking, 'review'): a review refers to the booking.
HasReview(rvs, id) == \E i \in DOMAIN rvs : rvs[i].booking = id

\* One round of the loop of create_reviews that creates a review: a completed booking
\* that has no review, while fewer than count reviews were created.
SeedCreateReview(id, rating) ==
    /\ Quiet
    /\ Len(reviews) < MaxReviews
    /\ id \in DOMAIN bookings
    /\ bookings[id].status = "completed"
    /\ ~HasReview(reviews, id)
    /\ reviews' = Append(reviews, [listing |-> bookings[id].listing,
                                   guest |-> bookings[id].guest,
                                   booking |-> id,
                                   rating |-> rating])
    /\ UNCHANGED <<listings, bookings, today, last, req>>

SeedNext ==
    \/ Tick
    \/ \E listing \in DOMAIN listings, guest \in Users, back \in Dates,
          duration \in SeedDurations, num_guests \in GuestCounts, status \in Statuses :
          SeedCreateBooking(listing, guest, back, duration, num_guests, status)
    \/ \E id \in DOMAIN bookings, comment \in SeedComments :
          \E rating \in SeedRatings(comment) : SeedCreateReview(id, rating)
    \/ \E data \in PlainReviewRequests, user \in Users : CreateReview(data, user)
    \/ Respond

\* The seed command fills the empty tables on some day; guests then review through the
\* serializer as well.
SeedSpec == Init /\ [][SeedNext]_vars

\* The booking engine, one request at a time.
Spec == Init /\ [][Next]_vars

ReviewNext ==
    \/ \E data \in OneNightRequests, user \in Users : CreateBooking(data, user)
    \/ \E id \in DOMAIN bookings, status \in Statuses : UpdateBookingStatus(id, status)
    \/ \E data \in ReviewRequests, user \in Users : CreateReview(data, user)
    \/ Respond

\* The review gate over one-night bookings, one request at a time.
ReviewSpec == Init /\ [][ReviewNext]_vars

ConcNext ==
    \/ \E w \in Workers, data \in ConcurrentRequests, user \in Users :
          ValidateStep(w, data, user)
    \/ \E w \in Workers : CreateStep(w)

\* Create requests of two workers, their steps interleaved.
ConcSpec == Init /\ [][ConcNext]_vars

\* Worker w takes a review request and runs serializer.is_valid(): validate_rating and
\* validate() against the bookings and reviews stored at that moment.
ReviewValidateStep(w, data, user) ==
    LET r == ReviewValidate(bookings, reviews, data, user) IN
    /\ req[w].pc # "validated"
    /\ req' = [req EXCEPT ![w] =
                 [pc |-> IF r = "ok" THEN "validated" ELSE "done",
                  user |-> user, data |-> data, result |-> r]]
    /\ UNCHANGED <<listings, bookings, reviews, today, last>>

\* Worker w runs serializer.save(): create() inserts the review, whatever was stored
\* since its validate().
ReviewCreateStep(w) ==
    /\ req[w].pc = "validated"
    /\ Len(reviews) < MaxReviews
    /\ reviews' = Append(reviews, ReviewCreate(bookings, req[w].data, req[w].user))
    /\ req' = [req EXCEPT ![w].pc = "done"]
    /\ UNCHANGED <<listings, bookings, today, last>>

\* Two stays are over: u2 stayed at l1 and u1 at l2 for the night of day 0.
CompletedStays ==
    << [listing |-> "l1", guest |-> "u2", check_in_date |-> 0, check_out_date |-> 1,
        number_of_guests |-> 1, total_price |-> TotalPrice("l1", 0, 1),
        status |-> "completed"],
       [listing |-> "l2", guest |-> "u1", check_in_date |-> 0, check_out_date |-> 1,
        number_of_guests |-> 1, total_price |-> TotalPrice("l2", 0, 1),
        status |-> "completed"] >>

ConcReviewInit ==
    /\ listings = ListingRows
    /\ bookings = CompletedStays
    /\ reviews = <<>>
    /\ today = MaxToday
    /\ last = NoResponse
    /\ req = [w \in Workers |-> NoRequest]

ConcReviewNext ==
    \/ \E w \in Workers, data \in ConcurrentReviewRequests, user \in Users :
          ReviewValidateStep(w, data, user)
    \/ \E w \in Workers : ReviewCreateStep(w)

\* Review requests of two workers after two completed stays, their steps interleaved.
ConcReviewSpec == ConcReviewInit /\ [][ConcReviewNext]_vars

(***************************************************************************)
(* Properties                                                              *)
(***************************************************************************)

\* Two intervals [a1, b1) and [a2, b2) overlap under half-open semantics.
HalfOpenOverlap(a1, b1, a2, b2) == a1 < b2 /\ a2 < b1

Active(row) == row.status \in {"pending", "confirmed"}

\* C1: in every state reached by create_booking requests and status changes handled one
\* after the other, no two distinct pending or confirmed bookings of the same listing
\* have overlapping intervals [check_in, check_out).
C1_NoActiveOverlap ==
    \A i, j \in DOMAIN bookings :
        (/\ i # j
         /\ bookings[i].listing = bookings[j].listing
         /\ Active(bookings[i])
         /\ Active(bookings[j]))
        => ~HalfOpenOverlap(bookings[i].check_in_date, bookings[i].check_out_date,
                            bookings[j].check_in_date, bookings[j].check_out_date)

\* Two active bookings of one listing are stored, the second after a conflicting request
\* was refused or a status change was handled.
C1_Witness ==
    \E i, j \in DOMAIN bookings :
        /\ i # j
        /\ bookings[i].listing = bookings[j].listing
        /\ Active(bookings[i])
        /\ Active(bookings[j])
        /\ bookings[i].check_out_date = bookings[j].check_in_date
        /\ last.op = "update_booking"
        /\ last.result = "DateConflict"

\* The checks of create_booking that come before the overlap check all pass.
EarlierChecksPass(data) ==
    /\ data.check_out_date > data.check_in_date
    /\ data.check_in_date >= today
    /\ data.listing_id \in ListingIds
    /\ data.number_of_guests <= listings[data.listing_id].max_guests
    /\ listings[data.listing_id].available

\* The listing of the request has a pending or confirmed booking whose interval
\* overlaps the requested one.
HasConflict(data) ==
    \E i \in DOMAIN bookings :
        /\ bookings[i].listing = data.listing_id
        /\ Active(bookings[i])
        /\ HalfOpenOverlap(bookings[i].check_in_date, bookings[i].check_out_date,
                           data.check_in_date, data.check_out_date)

\* C3: create_booking fails with DateConflict iff the earlier checks pass and the listing
\* has a pending or confirmed booking that overlaps the request under half-open
\* semantics; touching intervals and cancelled or completed bookings are no conflict.
\* Stated for every request that can be taken in a state where none is being answered;
\* a refused request leaves the conflicting booking in place.
C3_DateConflictIff ==
    /\ Quiet =>
          \A data \in BookingRequests :
              (BookingValidate(bookings, data) = "DateConflict")
                  <=> (EarlierChecksPass(data) /\ HasConflict(data))
    /\ (last.op = "create_booking" /\ last.result = "DateConflict")
          => \E i \in DOMAIN bookings :
                bookings[i].listing = last.listing /\ Active(bookings[i])

\* A request was refused with DateConflict while the listing also holds a booking that
\* is cancelled or completed.
C3_Witness ==
    /\ last.op = "create_booking"
    /\ last.result = "DateConflict"
    /\ \E i \in DOMAIN bookings :
          bookings[i].listing = last.listing /\ ~Active(bookings[i])

\* C4: the booking stored by a successful create_booking has total_price equal to the
\* listing's price_per_night times the whole days between check_in and check_out.
C4_TotalPrice ==
    (last.op = "create_booking" /\ last.result = "ok")
        => /\ last.id = Len(bookings)
           /\ bookings[last.id].total_price =
                  listings[bookings[last.id].listing].price_per_night
                      * (bookings[last.id].check_out_date - bookings[last.id].check_in_date)

\* A booking of two nights was created on the listing priced 3 a night.
C4_Witness ==
    /\ last.op = "create_booking"
    /\ last.result = "ok"
    /\ bookings[last.id].listing = "l2"
    /\ bookings[last.id].check_out_date - bookings[last.id].check_in_date = 2
    /\ bookings[last.id].total_price = 6

\* The checks of create_booking in the order of the specification, each with its error.
CheckErrors ==
    <<"InvalidDateRange", "PastDate", "NotFound", "CapacityExceeded",
      "ListingUnavailable", "DateConflict">>

\* The positions in CheckErrors of the checks the request violates.
ViolatedChecks(data) ==
    { k \in DOMAIN CheckErrors :
        \/ k = 1 /\ data.check_out_date <= data.check_in_date
        \/ k = 2 /\ data.check_in_date < today
        \/ k = 3 /\ data.listing_id \notin ListingIds
        \/ k = 4 /\ data.listing_id \in ListingIds
                 /\ data.number_of_guests > listings[data.listing_id].max_guests
        \/ k = 5 /\ data.listing_id \in ListingIds
                 /\ ~listings[data.listing_id].available
        \/ k = 6 /\ HasConflict(data) }

FirstViolated(data) ==
    CHOOSE k \in ViolatedChecks(data) : \A m \in ViolatedChecks(data) : k <= m

\* C5: a request that violates one or several checks is refused with the error of the
\* earliest violated check in the order date range, past date, listing existence,
\* capacity, availability, overlap.  Stated for every request that can be taken in a
\* state where none is being answered.
C5_FirstFailingCheckWins ==
    Quiet =>
        \A data \in BookingRequests :
            ViolatedChecks(data) # {}
                => BookingValidate(bookings, data) = CheckErrors[FirstViolated(data)]

\* A request for too many guests on an unavailable listing was refused with
\* CapacityExceeded.
C5_Witness ==
    /\ last.op = "create_booking"
    /\ last.result = "CapacityExceeded"
    /\ last.listing \in ListingIds
    /\ ~listings[last.listing].available

\* C2: of two create requests for the same listing with overlapping intervals that ran
\* with their validate and create steps interleaved, not both succeed: one is refused
\* with DateConflict.
C2_ExactlyOneSucceeds ==
    \A v, w \in Workers :
        (/\ v # w
         /\ req[v].pc = "done"
         /\ req[w].pc = "done"
         /\ req[v].data.listing_id = req[w].data.listing_id
         /\ HalfOpenOverlap(req[v].data.check_in_date, req[v].data.check_out_date,
                            req[w].data.check_in_date, req[w].data.check_out_date))
        => \/ req[v].result = "ok" /\ req[w].result = "DateConflict"
           \/ req[v].result = "DateConflict" /\ req[w].result = "ok"
           \/ req[v].result = "DateConflict" /\ req[w].result = "DateConflict"

\* C6: no stored booking has a guest equal to the host of its listing (a request of the
\* host is refused with InvalidGuest).
C6_GuestIsNotHost ==
    /\ \A i \in DOMAIN bookings :
          bookings[i].guest # listings[bookings[i].listing].host
    /\ (last.op = "create_booking" /\ last.listing \in ListingIds
            /\ last.user = listings[last.listing].host)
          => last.result # "ok"

\* C7: the booking stored by a successful create_booking has status pending, whatever
\* status the request carries.
C7_InitialStatusPending ==
    (last.op = "create_booking" /\ last.result = "ok")
        => bookings[last.id].status = "pending"

\* The explicit status changes the specification allows.
ValidTransitions ==
    { <<"pending", "confirmed">>, <<"pending", "cancelled">>, <<"confirmed", "cancelled">> }

\* C8: the stored status of a booking changes only along pending to confirmed, pending to
\* cancelled and confirmed to cancelled; any other explicit change is refused and
\* leaves the stored status as it was.
C8_OnlyValidTransitions ==
    [][\A i \in DOMAIN bookings :
          bookings'[i].status # bookings[i].status
              => <<bookings[i].status, bookings'[i].status>> \in ValidTransitions]_vars

HasCompletedStay(user, listing) ==
    \E i \in DOMAIN bookings :
        /\ bookings[i].listing = listing
        /\ bookings[i].guest = user
        /\ bookings[i].status = "completed"

\* C10 as stated: create_review for an existing listing by a guest who has no completed
\* booking of it fails with NotEligible and stores no review.
C10_AlwaysNotEligible ==
    [][(/\ last'.op = "create_review"
        /\ last'.listing \in ListingIds
        /\ ~HasCompletedStay(last'.user, last'.listing))
          => /\ last'.result = "NotEligible"
             /\ reviews' = reviews]_vars

\* C10 as amended: create_review by a guest who has no completed booking of the listing
\* never succeeds and stores no review; it fails with NotEligible, unless the rating or
\* the listing check, which come first, already refused it.
C10_NoReviewWithoutCompletedStay ==
    [][(last'.op = "create_review" /\ ~HasCompletedStay(last'.user, last'.listing))
          => /\ last'.result # "ok"
             /\ reviews' = reviews
             /\ (last'.listing \in ListingIds /\ last'.result # "InvalidRating")
                   => last'.result = "NotEligible"]_vars

\* A review request was refused with NotEligible although another guest has a completed
\* booking of the listing.
C10_Witness ==
    /\ last.op = "create_review"
    /\ last.result = "NotEligible"
    /\ \E i \in DOMAIN bookings :
          /\ bookings[i].listing = last.listing
          /\ bookings[i].guest # last.user
          /\ bookings[i].status = "completed"

\* The user has a review of the listing stored.
HasReviewed(user, listing) ==
    \E i \in DOMAIN reviews :
        reviews[i].listing = listing /\ reviews[i].guest = user

\* C11 as stated: once a guest has a review of a listing stored, every later create_review
\* by that guest for that listing fails with DuplicateReview and leaves the reviews
\* unchanged.
C11_AlwaysDuplicateReview ==
    [][(last'.op = "create_review" /\ HasReviewed(last'.user, last'.listing))
          => /\ last'.result = "DuplicateReview"
             /\ reviews' = reviews]_vars

\* C11 as amended: once a guest has a review of a listing stored, every later
\* create_review by that guest for that listing fails and leaves the reviews unchanged;
\* the error is DuplicateReview, unless the rating is outside 1..5 (InvalidRating) or the
\* guest no longer has a completed booking of the listing (NotEligible).
C11_SecondReviewRefused ==
    [][(last'.op = "create_review" /\ HasReviewed(last'.user, last'.listing))
          => /\ last'.result \in {"InvalidRating", "NotEligible", "DuplicateReview"}
             /\ reviews' = reviews
             /\ (last'.result # "InvalidRating"
                    /\ HasCompletedStay(last'.user, last'.listing))
                   => last'.result = "DuplicateReview"]_vars

\* A second request of a guest who has a review of the listing stored was refused with
\* DuplicateReview.
C11_Witness ==
    /\ last.op = "create_review"
    /\ last.result = "DuplicateReview"
    /\ HasReviewed(last.user, last.listing)
    /\ HasCompletedStay(last.user, last.listing)

\* C12: a create_booking request with check_out <= check_in fails validation with
\* InvalidDateRange whatever its listing, guest count and status and whatever bookings
\* are stored, and no step stores a booking whose check_out is not after its check_in.
C12_InvalidDateRange ==
    /\ [](Quiet =>
            \A data \in BookingRequests :
                data.check_out_date <= data.check_in_date
                    => BookingValidate(bookings, data) = "InvalidDateRange")
    /\ [][Len(bookings') > Len(bookings)
            => bookings'[Len(bookings')].check_out_date
                   > bookings'[Len(bookings')].check_in_date]_vars
    /\ [][(last'.op = "create_booking" /\ last'.result = "InvalidDateRange")
            => bookings' = bookings]_vars

\* A request naming a listing that does not exist was refused for its dates first.
C12_Witness ==
    /\ last.op = "create_booking"
    /\ last.result = "InvalidDateRange"
    /\ last.listing = "lx"
    /\ last.id = 0

\* C13: a create_booking request with its dates in order and check_in before today fails
\* validation with PastDate; one with check_in equal to today passes the date checks; and
\* no booking is stored by a step with a check_in before the day of the step.
C13_PastDate ==
    /\ [](Quiet =>
            \A data \in BookingRequests :
                data.check_out_date > data.check_in_date
                    => /\ data.check_in_date < today
                          => BookingValidate(bookings, data) = "PastDate"
                       /\ data.check_in_date = today
                          => BookingValidate(bookings, data)
                                 \notin {"InvalidDateRange", "PastDate"})
    /\ [][Len(bookings') > Len(bookings)
            => bookings'[Len(bookings')].check_in_date >= today]_vars
    /\ [][(last'.op = "create_booking" /\ last'.result = "PastDate")
            => bookings' = bookings]_vars

\* A request was refused with PastDate on a later day, and a booking that checks in today
\* is stored.
C13_Witness ==
    /\ last.op = "create_booking"
    /\ last.result = "PastDate"
    /\ today > 0
    /\ \E i \in DOMAIN bookings : bookings[i].check_in_date = today

\* C14: a create_booking or create_review request that fails leaves listings, bookings and
\* reviews as they were; one that succeeds appends exactly one row to its own table and
\* changes no other row of any table.
C14_FrameOfCreate ==
    [][last'.op \in {"create_booking", "create_review"}
         => /\ listings' = listings
            /\ last'.result # "ok" => bookings' = bookings /\ reviews' = reviews
            /\ (last'.result = "ok" /\ last'.op = "create_booking")
                  => /\ reviews' = reviews
                     /\ Len(bookings') = Len(bookings) + 1
                     /\ last'.id = Len(bookings')
                     /\ SubSeq(bookings', 1, Len(bookings)) = bookings
            /\ (last'.result = "ok" /\ last'.op = "create_review")
                  => /\ bookings' = bookings
                     /\ Len(reviews') = Len(reviews) + 1
                     /\ last'.id = Len(reviews')
                     /\ SubSeq(reviews', 1, Len(reviews)) = reviews]_vars

\* A request failed with bookings and a review stored, which it left alone.
C14_Witness ==
    /\ last.op \in {"create_booking", "create_review"}
    /\ last.result \notin {"ok", "none"}
    /\ Len(bookings) = MaxBookings
    /\ Len(reviews) >= 1

\* The request data with the booking_id field left out.
WithoutBookingId(data) == [data EXCEPT !.booking_id = 0]

\* C15: the review a successful create_review stores refers to a booking only if the
\* request's booking_id resolves to a stored booking, and then to that one; a request
\* whose booking_id does not resolve is validated like the same request without a
\* booking_id and stores the same row, with no booking reference.
C15_UnresolvedBookingIdIgnored ==
    /\ [](Quiet =>
            \A data \in ReviewRequests, user \in Users :
                data.booking_id \notin DOMAIN bookings
                    => /\ ReviewValidate(bookings, reviews, data, user)
                            = ReviewValidate(bookings, reviews,
                                             WithoutBookingId(data), user)
                       /\ ReviewCreate(bookings, data, user)
                            = ReviewCreate(bookings, WithoutBookingId(data), user)
                       /\ ReviewCreate(bookings, data, user).booking = 0)
    /\ [][(last'.op = "create_review" /\ last'.result = "ok")
            => /\ reviews'[last'.id].listing = last'.listing
               /\ reviews'[last'.id].guest = last'.user
               /\ reviews'[last'.id].booking # 0
                    => /\ reviews'[last'.id].booking = last'.booking_id
                       /\ last'.booking_id \in DOMAIN bookings
               /\ last'.booking_id \notin DOMAIN bookings
                    => reviews'[last'.id].booking = 0]_vars

\* A request with a booking_id that resolves to no booking succeeded and its review is
\* stored without a booking reference.
C15_Witness ==
    /\ last.op = "create_review"
    /\ last.result = "ok"
    /\ last.booking_id # 0
    /\ last.booking_id \notin DOMAIN bookings
    /\ reviews[last.id].booking = 0

\* C16: every stored listing has price_per_night > 0 and max_guests >= 1.
C16_ListingFieldsPositive ==
    \A id \in DOMAIN listings :
        listings[id].price_per_night > 0 /\ listings[id].max_guests >= 1

\* C17: every stored booking has a guest count no larger than the max_guests of its
\* listing.
C17_GuestsWithinCapacity ==
    \A i \in DOMAIN bookings :
        /\ bookings[i].listing \in DOMAIN listings
        /\ bookings[i].number_of_guests <= listings[bookings[i].listing].max_guests

\* C18: a create_review request whose rating is outside 1..5 fails validation with
\* InvalidRating whatever its listing_id and whatever bookings and reviews are stored,
\* and every stored review, created by create_review or by the seed command, has a
\* rating in 1..5.
C18_RatingInRange ==
    /\ Quiet =>
          \A data \in ReviewRequests, user \in Users :
              data.rating \notin 1..5
                  => ReviewValidate(bookings, reviews, data, user) = "InvalidRating"
    /\ \A i \in DOMAIN reviews : reviews[i].rating \in 1..5
    /\ (last.op = "create_review" /\ last.result = "InvalidRating") => last.id = 0

\* A request for a listing that does not exist was refused for its rating first, with a
\* review of the seed command stored.
C18_Witness ==
    /\ last.op = "create_review"
    /\ last.result = "InvalidRating"
    /\ last.listing = "lx"
    /\ \E i \in DOMAIN reviews : reviews[i].booking # 0 /\ reviews[i].rating \in 3..4

\* C19: no two stored reviews have the same guest and the same listing.
C19_OneReviewPerPair ==
    \A i, j \in DOMAIN reviews :
        (reviews[i].guest = reviews[j].guest /\ reviews[i].listing = reviews[j].listing)
            => i = j

\* C20: the booking a successful create_review attaches to the new review is a booking
\* of the review's guest and listing with status completed.
C20_AttachedBookingJustifies ==
    [][(/\ last'.op = "create_review"
        /\ last'.result = "ok"
        /\ reviews'[last'.id].booking # 0)
          => /\ bookings[reviews'[last'.id].booking].guest = last'.user
             /\ bookings[reviews'[last'.id].booking].listing = last'.listing
             /\ bookings[reviews'[last'.id].booking].status = "completed"]_vars

\* C21: a round of the seed command's create_bookings stores a pending or confirmed
\* booking only if its interval [check_in, check_out) overlaps that of no pending or
\* confirmed booking of the same listing stored before, so no two such bookings of one
\* listing overlap after seeding.
C21_SeedSkipsConflicts ==
    [][Len(bookings') > Len(bookings)
         => \A i \in DOMAIN bookings :
                (/\ Active(bookings'[Len(bookings')])
                 /\ Active(bookings[i])
                 /\ bookings[i].listing = bookings'[Len(bookings')].listing)
                => ~HalfOpenOverlap(bookings[i].check_in_date,
                                    bookings[i].check_out_date,
                                    bookings'[Len(bookings')].check_in_date,
                                    bookings'[Len(bookings')].check_out_date)]_vars

\* The reviews the seed command created: create_reviews always attaches the booking,
\* and the review requests of this specification carry no booking_id.
SeedReviews == { i \in DOMAIN reviews : reviews[i].booking # 0 }

\* C22 (only completed bookings): every review of the seed command belongs to a
\* completed booking, whose guest and listing it has.
C22_SeedReviewsOfCompleted ==
    \A i \in SeedReviews :
        /\ reviews[i].booking \in DOMAIN bookings
        /\ bookings[reviews[i].booking].status = "completed"
        /\ bookings[reviews[i].booking].guest = reviews[i].guest
        /\ bookings[reviews[i].booking].listing = reviews[i].listing

\* C22 (at most count): the seed command created no more reviews than requested.
C22_SeedReviewsAtMostCount == Cardinality(SeedReviews) <= MaxReviews

\* C22: the seed command's create_reviews creates reviews only for completed bookings,
\* at most the requested count of them, and no two for the same guest and listing.
C22_SeedReviews ==
    /\ C22_SeedReviewsOfCompleted
    /\ C22_SeedReviewsAtMostCount
    /\ \A i, j \in SeedReviews :
          (reviews[i].guest = reviews[j].guest /\ reviews[i].listing = reviews[j].listing)
              => i = j

====
